---- MODULE Spec2Model ----
(***************************************************************************)
(* The HVAC occupancy-forecasting toolkit as a state machine.  A caller    *)
(* holds some tables and some forecasting-model objects and calls the      *)
(* public operations of src/data, src/control, src/models and src/viz in   *)
(* any order.  Each action is one call; `last' records the call, the       *)
(* exception it raised (if any) and the value it returned (if any).        *)
(*                                                                         *)
(* Python's None and "argument omitted" are the empty tuple; a present     *)
(* value v is the one-element tuple <<v>>.                                 *)
(***************************************************************************)
EXTENDS Integers, Sequences, FiniteSets

VARIABLES
    heap,       \* the tables (DataFrames) the caller holds, by object number
    instances,  \* the model objects constructed so far, by object number
    opened,     \* the paths the program has opened for reading
    fit_called, \* history: the model objects on which fit has been called
    lists,      \* the lists the caller holds, by object number
    last        \* the most recent call and its outcome

vars == <<heap, instances, opened, fit_called, lists, last>>

\* ---------------------------------------------------------------- bounds
MaxTables == 2
MaxInstances == 2

\* ------------------------------------------------------ values and inputs
None == <<>>
Some(v) == <<v>>
Opt(S) == {None} \cup {Some(v) : v \in S}

\* A table: column names and rows of cells (cells are integers: minutes of
\* the day, zone numbers, counts).
OccupancyTable ==
    [columns |-> <<"timestamp", "zone_id", "occupancy_count">>,
     rows    |-> << <<540, 1, 0>>, <<555, 1, 3>> >>]
\* A merged table: zone 1 unoccupied with HVAC on, drawing 2 kWh in each of
\* the 15-minute intervals 09:00, 09:15, 09:30, 09:45.
MergedTable ==
    [columns |-> <<"timestamp", "zone_id", "occupancy_count", "hvac_on", "energy_kwh">>,
     rows    |-> << <<540, 1, 0, 1, 2>>, <<555, 1, 0, 1, 2>>,
                    <<570, 1, 0, 1, 2>>, <<585, 1, 0, 1, 2>> >>]
TableContents == {OccupancyTable, MergedTable}

Paths == {"data/raw/occupancy.csv", "no/such/file.csv"}
Freqs == {"1H"}
Hows == {"outer"}
ColNames == {"n_people"}
\* The caller's lists of lag periods, and the list objects it may pass.
CallerLists == << <<>>, <<1, 4>> >>
MetricLists == {<<"mae">>}
\* A dict is the set of its (key, value) items.
ComfortDicts ==
    {{}, {<<"min_temp", 55>>},
     {<<"min_temp", 55>>, <<"max_temp", 90>>,
      <<"pre_condition_time", 15>>, <<"occupancy_threshold", 1>>}}
ParamDicts == {{<<"setback_temp", 60>>}}
SavingsDicts == {{}, {<<"total_energy_savings", 8>>}}
\* Constructor arguments: (zone_id, freq, **prophet_kwargs) and
\* (zone_id, seq_length, **kwargs), None standing for an omitted argument.
ProphetConfigs ==
    {<<None, None, {}>>,
     <<Some("zone_a"), Some("1H"), {<<"daily_seasonality", 1>>}>>}
TransformerConfigs ==
    {<<Some("zone_a"), Some(48), {<<"dropout", 1>>}>>}
Policies ==
    {"occupancy_setback", "predictive_setback", "optimal_schedule",
     "invalid_policy", "Occupancy_Setback", " optimal_schedule"}
\* (policy, policy_params) of a simulate_control_policy call.
PolicyCalls ==
    {<<policy, None>> : policy \in Opt(Policies)} \cup
    {<<Some(policy), Some(params)>> :
        policy \in {"optimal_schedule", "invalid_policy"}, params \in ParamDicts}
\* (periods, include_history) of a Prophet predict call.
PredictCalls == {<<0, None>>, <<96, Some(TRUE)>>}
\* (include_time_features, include_lag_features, lag_periods) of an
\* engineer_features call, lag_periods naming one of the caller's lists.
FeatureCalls ==
    {<<None, None, None>>,
     <<Some(TRUE), Some(TRUE), Some(2)>>,
     <<Some(TRUE), Some(FALSE), Some(1)>>,
     <<Some(FALSE), Some(TRUE), Some(2)>>,
     <<Some(FALSE), Some(FALSE), None>>}
Dates == {"2024-01-15"}

\* The tables a call may be given: any the caller holds; for a function that
\* never looks at its table, the first or the newest; for a second table
\* argument, the newest.
Refs == 1..Len(heap)
Tables == {1, Len(heap)}
Others == {Len(heap)}
Selves == 1..Len(instances)

\* Arguments are passed by reference: a function is handed the object, which
\* is its number and its content.  Number 0 is an object the call created.
Table(ref) ==
    [type |-> "table", id |-> ref,
     columns |-> heap[ref].columns, rows |-> heap[ref].rows]
List(ref) == [type |-> "list", id |-> ref, items |-> lists[ref]]
OptTable(ref) == IF ref = None THEN None ELSE Some(Table(ref[1]))
OptList(ref) == IF ref = None THEN None ELSE Some(List(ref[1]))

\* The value of a parameter: the argument when one was passed, else the
\* default of the signature.
Arg(passed, default) == IF passed = None THEN default ELSE passed[1]

\* ------------------------------------------------------------- outcomes
\* An outcome is the exception raised or the value returned, with the
\* effects the call had on the objects passed to it and on the outside.
Raise(type, msg) ==
    [exc |-> Some([type |-> type, msg |-> msg]), ret |-> None, effects |-> {}]
Return(v) == [exc |-> None, ret |-> Some(v), effects |-> {}]

NotImplementedError(text) == Raise("NotImplementedError", <<text>>)
ValueError(msg) == Raise("ValueError", msg)

\* An exception raised in a frame carries the frame's local bindings (its
\* traceback); noted where a function binds locals before it raises.
InFrame(out, locals) ==
    [out EXCEPT !.exc = Some([type |-> out.exc[1].type, msg |-> out.exc[1].msg,
                              locals |-> locals])]

\* Variant: no copy is made, the result is the caller's own table.
copy_sharing(df) == df

\* DataFrame.copy(): a new table with the same columns and the same rows.
copy(df) ==
    [type    |-> "table",
     id      |-> 0,
     columns |-> [i \in DOMAIN df.columns |-> df.columns[i]],
     rows    |-> [i \in DOMAIN df.rows |-> df.rows[i]]]

\* ----------------------------------------------------- src/data/load.py
\* Each loader yields its outcome and the set of paths it opened.
\* Variant: the loader opens the path and returns the table read from it.
load_occupancy_reading(path, parse_dates) ==
    [out |-> Return(OccupancyTable), opened |-> {path}]

load_occupancy(path, parse_dates) ==
    [out |-> NotImplementedError("Implement once raw data format is confirmed"),
     opened |-> {}]

load_hvac(path, parse_dates) ==
    [out |-> NotImplementedError("Implement once raw data format is confirmed"),
     opened |-> {}]

load_weather(path, parse_dates) ==
    [out |-> NotImplementedError("Implement once raw data format is confirmed"),
     opened |-> {}]

load_tou(path, parse_dates) ==
    [out |-> NotImplementedError("Implement once raw data format is confirmed"),
     opened |-> {}]

load_space_metadata(path) ==
    [out |-> NotImplementedError("Implement once raw data format is confirmed"),
     opened |-> {}]

\* ----------------------------------------------- src/data/preprocess.py
merge_occupancy_hvac(occ_df, hvac_df, freq, how) ==
    NotImplementedError("Implement merge logic once data schemas are confirmed")

add_weather_features(df, weather_df) ==
    NotImplementedError("Implement weather feature merging")

add_tou_features(df, tou_df) ==
    NotImplementedError("Implement TOU feature merging")

\* Variant: the time-feature branch is live and adds an `hour' column.
engineer_features_with_hour(df, include_time_features, include_lag_features, lag_periods) ==
    LET result == copy(df)
        afterTime ==
            IF include_time_features
            THEN [type |-> "table", id |-> result.id,
                  columns |-> Append(result.columns, "hour"),
                  rows |-> [i \in DOMAIN result.rows |->
                               Append(result.rows[i], result.rows[i][1] \div 60)]]
            ELSE result
    IN  Return(afterTime)

\* The two flag-gated branches hold only `pass': the feature code is
\* commented out.
engineer_features(df, include_time_features, include_lag_features, lag_periods) ==
    LET lags == IF lag_periods = None THEN Some(<<1, 4, 96>>) ELSE lag_periods
        result == copy(df)
        afterTime == IF include_time_features THEN result ELSE result
        afterLag == IF include_lag_features THEN afterTime ELSE afterTime
    IN  Return(afterLag)

\* Variant: the annotated copy is returned.
compute_opportunity_for_savings_returning(df, occupancy_col, hvac_state_col, energy_col) ==
    Return(copy(df))

\* The copy is made and then dropped when the function raises.
compute_opportunity_for_savings(df, occupancy_col, hvac_state_col, energy_col) ==
    LET result == copy(df)
    IN  NotImplementedError("Implement opportunity for savings calculation")

\* --------------------------------------------- src/control/optimizer.py
DefaultComfortConstraints ==
    {<<"min_temp", 60>>, <<"max_temp", 85>>,
     <<"pre_condition_time", 30>>, <<"occupancy_threshold", 0>>}

\* Variant: a dict of constraints that lacks min_temp is rejected.
compute_savings_and_setpoints_validating(occupancy_forecast, hvac_baseline, tou_rates, comfort_constraints) ==
    LET constraints == IF comfort_constraints = None
                       THEN Some(DefaultComfortConstraints)
                       ELSE comfort_constraints
    IN  IF \E item \in constraints[1] : item[1] = "min_temp"
        THEN NotImplementedError("Implement setpoint optimization and savings calculation")
        ELSE Raise("ValueError", <<"comfort_constraints must give min_temp">>)

\* Variant: the defaults replace any falsy argument (`if not comfort_constraints').
compute_savings_and_setpoints_falsy(occupancy_forecast, hvac_baseline, tou_rates, comfort_constraints) ==
    LET constraints == IF comfort_constraints = None \/ comfort_constraints = Some({})
                       THEN Some(DefaultComfortConstraints)
                       ELSE comfort_constraints
    IN  InFrame(NotImplementedError("Implement setpoint optimization and savings calculation"),
                [comfort_constraints |-> constraints])

compute_savings_and_setpoints(occupancy_forecast, hvac_baseline, tou_rates, comfort_constraints) ==
    LET constraints == IF comfort_constraints = None
                       THEN Some(DefaultComfortConstraints)
                       ELSE comfort_constraints
    IN  InFrame(NotImplementedError("Implement setpoint optimization and savings calculation"),
                [comfort_constraints |-> constraints])

\* Variant: a module-level cache; a call that directly follows another call
\* of the function returns the remembered (empty) metrics.
estimate_savings_potential_cached(historical_df, occupancy_col, hvac_on_col, energy_col, tou_rate_col) ==
    IF last.op = "estimate_savings_potential"
    THEN Return({<<"total_opportunity_hours", 0>>})
    ELSE NotImplementedError("Implement historical savings potential analysis")

estimate_savings_potential(historical_df, occupancy_col, hvac_on_col, energy_col, tou_rate_col) ==
    NotImplementedError("Implement historical savings potential analysis")

\* Variant: the list lacks its third policy.
valid_policies_short == <<"occupancy_setback", "predictive_setback">>

valid_policies == <<"occupancy_setback", "predictive_setback", "optimal_schedule">>

\* `x in list': some element of the list equals x.
In(x, list) == \E i \in DOMAIN list : list[i] = x

\* str() of a list of strings, as the pieces of text it is made of:
\* ['a', 'b'] is "[", "'", "a", "'", ", ", "'", "b", "'", "]".
RECURSIVE ReprItems(_)
ReprItems(list) ==
    IF list = <<>> THEN <<>>
    ELSE IF Len(list) = 1 THEN <<"'", list[1], "'">>
    ELSE <<"'", Head(list), "'", ", ">> \o ReprItems(Tail(list))

ListStr(list) == <<"[">> \o ReprItems(list) \o <<"]">>

\* Variant: the message is a plain string, the list is not formatted in.
simulate_control_policy_plain_message(historical_df, policy, policy_params) ==
    IF ~In(policy, valid_policies)
    THEN ValueError(<<"Policy must be one of {valid_policies}">>)
    ELSE NotImplementedError("Implement control policy simulation")

\* Variant: the name is lower-cased and stripped before it is looked up.
simulate_control_policy_normalising(historical_df, policy, policy_params) ==
    LET name == CASE policy = "Occupancy_Setback" -> "occupancy_setback"
                  [] policy = " optimal_schedule" -> "optimal_schedule"
                  [] OTHER -> policy
    IN  IF ~In(name, valid_policies)
        THEN ValueError(<<"Policy must be one of ">> \o ListStr(valid_policies))
        ELSE NotImplementedError("Implement control policy simulation")

simulate_control_policy(historical_df, policy, policy_params) ==
    IF ~In(policy, valid_policies)
    THEN ValueError(<<"Policy must be one of ">> \o ListStr(valid_policies))
    ELSE NotImplementedError("Implement control policy simulation")

\* ------------------------------------- src/models/prophet_baseline.py
\* A method yields its outcome and the object as the call leaves it.
ProphetOccupancyModel_init(zone_id, freq, prophet_kwargs) ==
    [cls |-> "ProphetOccupancyModel", zone_id |-> zone_id, freq |-> freq,
     prophet_kwargs |-> prophet_kwargs, model |-> None]

\* Variant: the commented-out fitting is live.
ProphetOccupancyModel_fit_implemented(self, df) ==
    [out |-> Return("self"),
     self |-> [self EXCEPT !.model = Some("Prophet")]]

ProphetOccupancyModel_fit(self, df) ==
    [out |-> NotImplementedError("Implement Prophet model fitting"),
     self |-> self]

\* Variant: no check of self.model.
ProphetOccupancyModel_predict_unguarded(self, periods, include_history) ==
    [out |-> NotImplementedError("Implement Prophet prediction"),
     self |-> self]

ProphetOccupancyModel_predict(self, periods, include_history) ==
    [out |-> IF self.model = None
             THEN ValueError(<<"Model must be fitted before prediction">>)
             ELSE NotImplementedError("Implement Prophet prediction"),
     self |-> self]

ProphetOccupancyModel_evaluate(self, test_df, metrics) ==
    LET used == IF metrics = None THEN Some(<<"mae", "rmse", "mape">>) ELSE metrics
    IN  [out |-> NotImplementedError("Implement model evaluation"),
         self |-> self]

\* --------------------------------- src/models/transformer_baseline.py
TransformerOccupancyModel_init(zone_id, seq_length, pred_length, d_model, n_heads, n_layers, kwargs) ==
    [cls |-> "TransformerOccupancyModel", zone_id |-> zone_id,
     seq_length |-> seq_length, pred_length |-> pred_length,
     d_model |-> d_model, n_heads |-> n_heads, n_layers |-> n_layers,
     kwargs |-> kwargs, model |-> None, scaler |-> None]

TransformerOccupancyModel_build_model(self) ==
    [out |-> NotImplementedError("Implement transformer architecture"),
     self |-> self]

TransformerOccupancyModel_prepare_sequences(self, df, target_col, feature_cols) ==
    [out |-> NotImplementedError("Implement sequence preparation"),
     self |-> self]

\* Variant: fit builds the network into self.model before it fails.
TransformerOccupancyModel_fit_building(self, df, epochs, batch_size, learning_rate, val_split) ==
    [out |-> NotImplementedError("Implement transformer training"),
     self |-> [self EXCEPT !.model = Some("network")]]

TransformerOccupancyModel_fit(self, df, epochs, batch_size, learning_rate, val_split) ==
    [out |-> NotImplementedError("Implement transformer training"),
     self |-> self]

TransformerOccupancyModel_predict(self, df, horizon) ==
    [out |-> IF self.model = None
             THEN ValueError(<<"Model must be fitted before prediction">>)
             ELSE NotImplementedError("Implement transformer prediction"),
     self |-> self]

\* Variant: evaluate checks self.model as predict does.
TransformerOccupancyModel_evaluate_guarded(self, test_df, metrics) ==
    [out |-> IF self.model = None
             THEN ValueError(<<"Model must be fitted before prediction">>)
             ELSE NotImplementedError("Implement model evaluation"),
     self |-> self]

TransformerOccupancyModel_evaluate(self, test_df, metrics) ==
    LET used == IF metrics = None THEN Some(<<"mae", "rmse", "mape">>) ELSE metrics
    IN  [out |-> NotImplementedError("Implement model evaluation"),
         self |-> self]

\* ------------------------------------------------ src/viz/dashboards.py
plot_daily_opportunity_for_savings(df, date_col, opportunity_energy_col, total_energy_col, figsize, title) ==
    NotImplementedError("Implement daily opportunity plot")

plot_example_day_timeline(df, date, zone_id, figsize) ==
    NotImplementedError("Implement example day timeline plot")

plot_occupancy_heatmap(df, zone_id, agg_func, figsize) ==
    NotImplementedError("Implement occupancy heatmap")

plot_savings_summary(savings_dict, figsize) ==
    NotImplementedError("Implement savings summary plot")

\* Variant: the dashboard is served on the port and the call returns None.
create_interactive_dashboard_serving(df, port) ==
    [Return(None) EXCEPT !.effects = {[kind |-> "serve", port |-> port]}]

create_interactive_dashboard(df, port) ==
    NotImplementedError("Implement interactive dashboard")

\* ------------------------------------------------------- the state machine
\* One call is recorded: which operation, on which object (0 for a
\* module-level function), with which arguments, raising what, returning
\* what.
Call(op, self, args, out, ret) ==
    last' = [op |-> op, self |-> self, args |-> args, exc |-> out.exc, ret |-> ret,
             effects |-> out.effects]

\* The content of a table object, and a store after the objects written by a
\* call have been written: those among its effects, and a returned object
\* that is one of the caller's.
Content(obj) == [columns |-> obj.columns, rows |-> obj.rows]
Written(out) ==
    {e.obj : e \in {e \in out.effects : e.kind = "store"}} \cup
    (IF out.ret # None /\ out.ret[1].id # 0 THEN {out.ret[1]} ELSE {})
StoreTables(out) ==
    [r \in DOMAIN heap |->
        IF \E o \in Written(out) : o.type = "table" /\ o.id = r
        THEN Content(CHOOSE o \in Written(out) : o.type = "table" /\ o.id = r)
        ELSE heap[r]]
StoreLists(out) ==
    [r \in DOMAIN lists |->
        IF \E o \in Written(out) : o.type = "list" /\ o.id = r
        THEN (CHOOSE o \in Written(out) : o.type = "list" /\ o.id = r).items
        ELSE lists[r]]

\* A function whose result is a table: a returned table becomes a new object
\* the caller holds.
TableCall(op, args, out) ==
    LET created == out.ret # None /\ out.ret[1].id = 0
    IN  /\ heap' = IF created
                   THEN Append(StoreTables(out), Content(out.ret[1]))
                   ELSE StoreTables(out)
        /\ lists' = StoreLists(out)
        /\ Call(op, 0, args, out,
                IF out.ret = None THEN None
                ELSE IF created THEN Some(Len(heap) + 1)
                ELSE Some(out.ret[1].id))
        /\ UNCHANGED opened

\* A function whose result is not a table.
ValueCall(op, args, out) ==
    /\ Call(op, 0, args, out, out.ret)
    /\ UNCHANGED <<heap, opened, lists>>

\* A loader: what it opened is logged, a returned table is held.
LoaderCall(op, args, res) ==
    /\ heap' = IF res.out.ret = None THEN heap ELSE Append(heap, res.out.ret[1])
    /\ opened' = opened \cup res.opened
    /\ Call(op, 0, args, res.out,
            IF res.out.ret = None THEN None ELSE Some(Len(heap) + 1))
    /\ UNCHANGED lists

FitOps == {"ProphetOccupancyModel.fit", "TransformerOccupancyModel.fit"}
PredictOps == {"ProphetOccupancyModel.predict", "TransformerOccupancyModel.predict"}
EvaluateOps == {"ProphetOccupancyModel.evaluate", "TransformerOccupancyModel.evaluate"}

\* A method: the object is left as the method leaves it.
MethodCall(op, self, args, res) ==
    /\ instances' = [instances EXCEPT ![self] = res.self]
    /\ fit_called' = IF op \in FitOps THEN fit_called \cup {self} ELSE fit_called
    /\ Call(op, self, args, res.out, res.out.ret)
    /\ UNCHANGED <<heap, opened, lists>>

IsA(self, cls) == instances[self].cls = cls

Init ==
    /\ heap \in {<<t>> : t \in TableContents}
    /\ instances = <<>>
    /\ opened = {}
    /\ fit_called = {}
    /\ lists = CallerLists
    /\ last = [op |-> "start", self |-> 0, args |-> [none |-> TRUE],
               exc |-> None, ret |-> None, effects |-> {}]

\* ---- loaders
Do_load_occupancy ==
    /\ \E path \in Paths, parse_dates \in Opt({FALSE}) :
        LoaderCall("load_occupancy", [path |-> path, parse_dates |-> parse_dates],
                   load_occupancy(path, Arg(parse_dates, TRUE)))
    /\ UNCHANGED <<instances, fit_called>>

Do_load_hvac ==
    /\ \E path \in Paths, parse_dates \in {None} :
        LoaderCall("load_hvac", [path |-> path, parse_dates |-> parse_dates],
                   load_hvac(path, Arg(parse_dates, TRUE)))
    /\ UNCHANGED <<instances, fit_called>>

Do_load_weather ==
    /\ \E path \in Paths, parse_dates \in {None} :
        LoaderCall("load_weather", [path |-> path, parse_dates |-> parse_dates],
                   load_weather(path, Arg(parse_dates, TRUE)))
    /\ UNCHANGED <<instances, fit_called>>

Do_load_tou ==
    /\ \E path \in Paths, parse_dates \in {None} :
        LoaderCall("load_tou", [path |-> path, parse_dates |-> parse_dates],
                   load_tou(path, Arg(parse_dates, TRUE)))
    /\ UNCHANGED <<instances, fit_called>>

Do_load_space_metadata ==
    /\ \E path \in Paths :
        LoaderCall("load_space_metadata", [path |-> path],
                   load_space_metadata(path))
    /\ UNCHANGED <<instances, fit_called>>

\* ---- preprocessing
Do_merge_occupancy_hvac ==
    /\ \E occ_df \in Tables, hvac_df \in Others, freq \in Opt(Freqs), how \in Opt(Hows) :
        TableCall("merge_occupancy_hvac",
                  [occ_df |-> occ_df, hvac_df |-> hvac_df, freq |-> freq, how |-> how],
                  merge_occupancy_hvac(Table(occ_df), Table(hvac_df),
                                       Arg(freq, "15min"), Arg(how, "inner")))
    /\ UNCHANGED <<instances, fit_called>>

Do_add_weather_features ==
    /\ \E df \in Tables, weather_df \in Others :
        TableCall("add_weather_features", [df |-> df, weather_df |-> weather_df],
                  add_weather_features(Table(df), Table(weather_df)))
    /\ UNCHANGED <<instances, fit_called>>

Do_add_tou_features ==
    /\ \E df \in Tables, tou_df \in Others :
        TableCall("add_tou_features", [df |-> df, tou_df |-> tou_df],
                  add_tou_features(Table(df), Table(tou_df)))
    /\ UNCHANGED <<instances, fit_called>>

Do_engineer_features ==
    /\ Len(heap) < MaxTables
    /\ \E df \in Refs, call \in FeatureCalls :
        LET include_time_features == call[1]
            include_lag_features == call[2]
            lag_periods == call[3]
        IN
        TableCall("engineer_features",
                  [df |-> df, include_time_features |-> include_time_features,
                   include_lag_features |-> include_lag_features,
                   lag_periods |-> IF lag_periods = None THEN None
                                   ELSE Some(lists[lag_periods[1]])],
                  engineer_features(Table(df), Arg(include_time_features, TRUE),
                                    Arg(include_lag_features, TRUE),
                                    OptList(lag_periods)))
    /\ UNCHANGED <<instances, fit_called>>

Do_compute_opportunity_for_savings ==
    /\ \E df \in Refs, occupancy_col \in Opt(ColNames), energy_col \in {Some(None)} :
        TableCall("compute_opportunity_for_savings",
                  [df |-> df, occupancy_col |-> occupancy_col, energy_col |-> energy_col],
                  compute_opportunity_for_savings(
                      Table(df), Arg(occupancy_col, "occupancy_count"), "hvac_on",
                      Arg(energy_col, Some("energy_kwh"))))
    /\ UNCHANGED <<instances, fit_called>>

\* ---- optimizer
Do_compute_savings_and_setpoints ==
    /\ \E occupancy_forecast \in {1}, hvac_baseline \in Others,
          tou_rates \in Opt(Others), comfort_constraints \in Opt(ComfortDicts) :
        ValueCall("compute_savings_and_setpoints",
                  [occupancy_forecast |-> occupancy_forecast,
                   hvac_baseline |-> hvac_baseline, tou_rates |-> tou_rates,
                   comfort_constraints |-> comfort_constraints],
                  compute_savings_and_setpoints(
                      Table(occupancy_forecast), Table(hvac_baseline),
                      OptTable(tou_rates),
                      comfort_constraints))
    /\ UNCHANGED <<instances, fit_called>>

Do_estimate_savings_potential ==
    /\ \E historical_df \in Tables, occupancy_col \in {None},
          tou_rate_col \in Opt({"rate_kwh"}) :
        ValueCall("estimate_savings_potential",
                  [historical_df |-> historical_df, occupancy_col |-> occupancy_col,
                   tou_rate_col |-> tou_rate_col],
                  estimate_savings_potential(
                      Table(historical_df), Arg(occupancy_col, "occupancy_count"),
                      "hvac_on", "energy_kwh", tou_rate_col))
    /\ UNCHANGED <<instances, fit_called>>

Do_simulate_control_policy ==
    /\ \E historical_df \in Tables, call \in PolicyCalls :
        LET policy == call[1]
            policy_params == call[2]
        IN
        ValueCall("simulate_control_policy",
                  [historical_df |-> historical_df, policy |-> policy,
                   policy_params |-> policy_params],
                  simulate_control_policy(Table(historical_df),
                                          Arg(policy, "occupancy_setback"),
                                          policy_params))
    /\ UNCHANGED <<instances, fit_called>>

\* ---- forecasting models
\* Construction: the new object is held by the caller.
Construct(op, args, obj) ==
    /\ instances' = Append(instances, obj)
    /\ last' = [op |-> op, self |-> Len(instances) + 1, args |-> args,
                exc |-> None, ret |-> Some(Len(instances) + 1), effects |-> {}]
    /\ UNCHANGED <<heap, opened, lists>>

Do_ProphetOccupancyModel ==
    /\ Len(instances) < MaxInstances
    /\ \E cfg \in ProphetConfigs :
        LET zone_id == cfg[1]
            freq == cfg[2]
            prophet_kwargs == cfg[3]
        IN  Construct("ProphetOccupancyModel",
                      [zone_id |-> zone_id, freq |-> freq,
                       prophet_kwargs |-> prophet_kwargs],
                      ProphetOccupancyModel_init(zone_id, Arg(freq, "15min"),
                                                 prophet_kwargs))
    /\ UNCHANGED fit_called

Do_ProphetOccupancyModel_fit ==
    \E self \in Selves, df \in Others :
        /\ IsA(self, "ProphetOccupancyModel")
        /\ MethodCall("ProphetOccupancyModel.fit", self, [df |-> df],
                      ProphetOccupancyModel_fit(instances[self], Table(df)))

Do_ProphetOccupancyModel_predict ==
    \E self \in Selves, call \in PredictCalls :
        LET periods == call[1]
            include_history == call[2]
        IN
        /\ IsA(self, "ProphetOccupancyModel")
        /\ MethodCall("ProphetOccupancyModel.predict", self,
                      [periods |-> periods, include_history |-> include_history],
                      ProphetOccupancyModel_predict(instances[self], periods,
                                                    Arg(include_history, FALSE)))

Do_ProphetOccupancyModel_evaluate ==
    \E self \in Selves, test_df \in Others, metrics \in Opt(MetricLists) :
        /\ IsA(self, "ProphetOccupancyModel")
        /\ MethodCall("ProphetOccupancyModel.evaluate", self,
                      [test_df |-> test_df, metrics |-> metrics],
                      ProphetOccupancyModel_evaluate(instances[self], Table(test_df),
                                                     metrics))

Do_TransformerOccupancyModel ==
    /\ Len(instances) < MaxInstances
    /\ \E cfg \in TransformerConfigs :
        LET zone_id == cfg[1]
            seq_length == cfg[2]
            kwargs == cfg[3]
        IN  Construct("TransformerOccupancyModel",
                      [zone_id |-> zone_id, seq_length |-> seq_length,
                       kwargs |-> kwargs],
                      TransformerOccupancyModel_init(zone_id, Arg(seq_length, 96),
                                                     96, 64, 4, 2, kwargs))
    /\ UNCHANGED fit_called

Do_TransformerOccupancyModel_build_model ==
    \E self \in Selves :
        /\ IsA(self, "TransformerOccupancyModel")
        /\ MethodCall("TransformerOccupancyModel._build_model", self, [none |-> TRUE],
                      TransformerOccupancyModel_build_model(instances[self]))

Do_TransformerOccupancyModel_prepare_sequences ==
    \E self \in Selves, df \in Others, target_col \in {None} :
        /\ IsA(self, "TransformerOccupancyModel")
        /\ MethodCall("TransformerOccupancyModel._prepare_sequences", self,
                      [df |-> df, target_col |-> target_col],
                      TransformerOccupancyModel_prepare_sequences(
                          instances[self], Table(df),
                          Arg(target_col, "occupancy_count"), None))

Do_TransformerOccupancyModel_fit ==
    \E self \in Selves, df \in Others, epochs \in {Some(1)} :
        /\ IsA(self, "TransformerOccupancyModel")
        /\ MethodCall("TransformerOccupancyModel.fit", self,
                      [df |-> df, epochs |-> epochs],
                      TransformerOccupancyModel_fit(instances[self], Table(df),
                                                    Arg(epochs, 100), 32,
                                                    "1e-3", "0.2"))

Do_TransformerOccupancyModel_predict ==
    \E self \in Selves, df \in Others, horizon \in Opt({96}) :
        /\ IsA(self, "TransformerOccupancyModel")
        /\ MethodCall("TransformerOccupancyModel.predict", self,
                      [df |-> df, horizon |-> horizon],
                      TransformerOccupancyModel_predict(instances[self], Table(df),
                                                        horizon))

Do_TransformerOccupancyModel_evaluate ==
    \E self \in Selves, test_df \in Others, metrics \in Opt(MetricLists) :
        /\ IsA(self, "TransformerOccupancyModel")
        /\ MethodCall("TransformerOccupancyModel.evaluate", self,
                      [test_df |-> test_df, metrics |-> metrics],
                      TransformerOccupancyModel_evaluate(instances[self],
                                                         Table(test_df), metrics))

\* ---- visualization
Do_plot_daily_opportunity_for_savings ==
    /\ \E df \in Others, date_col \in {None}, title \in {Some("Savings")} :
        ValueCall("plot_daily_opportunity_for_savings",
                  [df |-> df, date_col |-> date_col, title |-> title],
                  plot_daily_opportunity_for_savings(
                      Table(df), Arg(date_col, "date"), "opportunity_energy_kwh",
                      "total_energy_kwh", <<12, 6>>, title))
    /\ UNCHANGED <<instances, fit_called>>

Do_plot_example_day_timeline ==
    /\ \E df \in Others, date \in Dates, zone_id \in {Some("zone_a")} :
        ValueCall("plot_example_day_timeline",
                  [df |-> df, date |-> date, zone_id |-> zone_id],
                  plot_example_day_timeline(Table(df), date, zone_id, <<14, 8>>))
    /\ UNCHANGED <<instances, fit_called>>

Do_plot_occupancy_heatmap ==
    /\ \E df \in Others, zone_id \in {None}, agg_func \in {Some("max")} :
        ValueCall("plot_occupancy_heatmap",
                  [df |-> df, zone_id |-> zone_id, agg_func |-> agg_func],
                  plot_occupancy_heatmap(Table(df), zone_id, Arg(agg_func, "mean"),
                                         <<12, 8>>))
    /\ UNCHANGED <<instances, fit_called>>

Do_plot_savings_summary ==
    /\ \E savings_dict \in SavingsDicts, figsize \in {None} :
        ValueCall("plot_savings_summary",
                  [savings_dict |-> savings_dict, figsize |-> figsize],
                  plot_savings_summary(savings_dict, Arg(figsize, <<10, 6>>)))
    /\ UNCHANGED <<instances, fit_called>>

Do_create_interactive_dashboard ==
    /\ \E df \in Tables, port \in {Some(8050)} :
        ValueCall("create_interactive_dashboard", [df |-> df, port |-> port],
                  create_interactive_dashboard(Table(df), Arg(port, 8050)))
    /\ UNCHANGED <<instances, fit_called>>

Next ==
    \/ Do_load_occupancy
    \/ Do_load_hvac
    \/ Do_load_weather
    \/ Do_load_tou
    \/ Do_load_space_metadata
    \/ Do_merge_occupancy_hvac
    \/ Do_add_weather_features
    \/ Do_add_tou_features
    \/ Do_engineer_features
    \/ Do_compute_opportunity_for_savings
    \/ Do_compute_savings_and_setpoints
    \/ Do_estimate_savings_potential
    \/ Do_simulate_control_policy
    \/ Do_ProphetOccupancyModel
    \/ Do_ProphetOccupancyModel_fit
    \/ Do_ProphetOccupancyModel_predict
    \/ Do_ProphetOccupancyModel_evaluate
    \/ Do_TransformerOccupancyModel
    \/ Do_TransformerOccupancyModel_build_model
    \/ Do_TransformerOccupancyModel_prepare_sequences
    \/ Do_TransformerOccupancyModel_fit
    \/ Do_TransformerOccupancyModel_predict
    \/ Do_TransformerOccupancyModel_evaluate
    \/ Do_plot_daily_opportunity_for_savings
    \/ Do_plot_example_day_timeline
    \/ Do_plot_occupancy_heatmap
    \/ Do_plot_savings_summary
    \/ Do_create_interactive_dashboard

Spec == Init /\ [][Next]_vars

TypeOK ==
    /\ Len(heap) \in 1..MaxTables
    /\ Len(instances) \in 0..MaxInstances
    /\ opened \subseteq Paths
    /\ fit_called \subseteq Selves
    /\ Len(lists) = Len(CallerLists)

\* ------------------------------------------------------------ properties
Exc(type, text) == Some([type |-> type, msg |-> <<text>>])
Raises(type) == last.exc # None /\ last.exc[1].type = type
NotImplemented == Raises("NotImplementedError") /\ last.ret = None
MustFitFirst == Exc("ValueError", "Model must be fitted before prediction")

\* The three policy names the documentation lists.
DocumentedPolicies == {"occupancy_setback", "predictive_setback", "optimal_schedule"}
\* The policy a recorded simulate_control_policy call ran with.
PolicyUsed == Arg(last.args.policy, "occupancy_setback")

ConstructorOps == {"ProphetOccupancyModel", "TransformerOccupancyModel"}
LoaderOps == {"load_occupancy", "load_hvac", "load_weather", "load_tou",
              "load_space_metadata"}
PreprocessOps == {"merge_occupancy_hvac", "add_weather_features",
                  "add_tou_features", "engineer_features",
                  "compute_opportunity_for_savings"}
OptimizerOps == {"compute_savings_and_setpoints", "estimate_savings_potential",
                 "simulate_control_policy"}
ModelOps == FitOps \cup PredictOps \cup EvaluateOps \cup
            {"TransformerOccupancyModel._build_model",
             "TransformerOccupancyModel._prepare_sequences"}
\* The object of the recorded method call has no underlying model.
Unfitted == instances[last.self].model = None

\* The two validated failure paths.
InvalidPolicyPath ==
    last.op = "simulate_control_policy" /\ PolicyUsed \notin DocumentedPolicies
UnfittedPredictPath == last.op \in PredictOps /\ Unfitted

\* C1: predict on a model object on which fit has never been called raises
\* ValueError("Model must be fitted before prediction") and returns nothing,
\* whatever the arguments of predict and of the constructor.
C1_PredictBeforeFit ==
    (last.op \in PredictOps /\ last.self \notin fit_called)
        => (last.exc = MustFitFirst /\ last.ret = None)

C1_Witness ==
    /\ last.op = "TransformerOccupancyModel.predict"
    /\ last.self \notin fit_called
    /\ last.args.horizon = Some(96)
    /\ instances[last.self].zone_id = Some("zone_a")
    /\ last.exc = MustFitFirst

\* C2: simulate_control_policy with a policy outside the three documented
\* names raises ValueError, and the message contains each of the three names.
C2_InvalidPolicyRejected ==
    InvalidPolicyPath
        => /\ Raises("ValueError")
           /\ last.ret = None
           /\ \A name \in DocumentedPolicies : In(name, last.exc[1].msg)

C2_Witness ==
    /\ last.op = "simulate_control_policy"
    /\ last.args.policy = Some("invalid_policy")
    /\ last.args.policy_params # None
    /\ Raises("ValueError")

\* C3: simulate_control_policy with any of the three documented names raises
\* the same NotImplementedError and returns nothing.
C3_ValidPolicyNotImplemented ==
    (last.op = "simulate_control_policy" /\ PolicyUsed \in DocumentedPolicies)
        => /\ last.exc = Exc("NotImplementedError", "Implement control policy simulation")
           /\ last.ret = None

C3_Witness ==
    /\ last.op = "simulate_control_policy"
    /\ last.args.policy = Some("optimal_schedule")
    /\ last.args.historical_df = 2
    /\ NotImplemented

\* C4: engineer_features returns, and the table it returns has the columns
\* and rows of its input, whatever the two flags and lag_periods are.
C4_EngineerFeaturesUnchanged ==
    last.op = "engineer_features"
        => /\ last.exc = None
           /\ last.ret # None
           /\ heap[last.ret[1]].columns = heap[last.args.df].columns
           /\ heap[last.ret[1]] = heap[last.args.df]

C4_Witness ==
    /\ last.op = "engineer_features"
    /\ last.args.include_time_features = Some(TRUE)
    /\ last.args.include_lag_features = Some(TRUE)
    /\ last.args.lag_periods = Some(<<1, 4>>)
    /\ heap[last.args.df] = OccupancyTable
    /\ last.ret # None

\* C5 as stated: every loader, preprocessing, optimizer and model function,
\* the two validated failure paths aside, raises NotImplementedError.
C5_EveryFunctionNotImplemented ==
    (/\ last.op \in LoaderOps \cup PreprocessOps \cup OptimizerOps \cup ModelOps
     /\ ~InvalidPolicyPath
     /\ ~UnfittedPredictPath)
        => NotImplemented

\* C5 as amended: the same with engineer_features excepted, which returns a
\* table and raises nothing.
C5_EveryFunctionButEngineerFeatures ==
    /\ (/\ last.op \in LoaderOps \cup PreprocessOps \cup OptimizerOps \cup ModelOps
        /\ last.op # "engineer_features"
        /\ ~InvalidPolicyPath
        /\ ~UnfittedPredictPath)
           => NotImplemented
    /\ last.op = "engineer_features" => (last.exc = None /\ last.ret # None)

C5_Witness ==
    /\ last.op = "ProphetOccupancyModel.fit"
    /\ NotImplemented
    /\ Len(heap) = 2

\* C6 as stated: a new model is Unfitted, fit leaves the model Fitted, and
\* predict is rejected with the invalid-state failure exactly when Unfitted.
C6_FitReachesFitted ==
    /\ last.op \in ConstructorOps => Unfitted
    /\ last.op \in FitOps => ~Unfitted
    /\ last.op \in PredictOps => (last.exc = MustFitFirst <=> Unfitted)

\* C7 as stated: evaluate, like predict, on a model that is not fitted is
\* rejected with the invalid-state failure.
C7_EvaluateGuarded ==
    (last.op \in EvaluateOps \cup PredictOps /\ Unfitted) => last.exc = MustFitFirst

\* C7 as amended: on a model that is not fitted, predict is rejected with the
\* invalid-state failure and evaluate raises NotImplementedError.
C7_OnlyPredictGuarded ==
    /\ (last.op \in PredictOps /\ Unfitted) => last.exc = MustFitFirst
    /\ (last.op \in EvaluateOps /\ Unfitted)
           => /\ last.exc = Exc("NotImplementedError", "Implement model evaluation")
              /\ last.ret = None

C7_Witness ==
    /\ last.op = "TransformerOccupancyModel.evaluate"
    /\ Unfitted
    /\ last.args.metrics = None
    /\ NotImplemented

\* C8: a failure other than NotImplementedError comes only from
\* simulate_control_policy given a policy outside its list, or from predict
\* on a model that is not fitted; it is then a ValueError.
C8_OnlyTwoValidations ==
    (last.exc # None /\ ~Raises("NotImplementedError"))
        => /\ Raises("ValueError")
           /\ InvalidPolicyPath \/ UnfittedPredictPath

C8_Witness ==
    /\ last.op = "ProphetOccupancyModel.predict"
    /\ Raises("ValueError")
    /\ last.args.periods = 96

\* C9: each of the five loaders raises NotImplementedError for every path and
\* parse_dates, returns no table, and no path has been opened.
C9_LoadersNotImplemented ==
    last.op \in LoaderOps
        => /\ last.exc = Exc("NotImplementedError",
                             "Implement once raw data format is confirmed")
           /\ last.ret = None
           /\ opened = {}

C9_Witness ==
    /\ last.op = "load_occupancy"
    /\ last.args.path = "data/raw/occupancy.csv"
    /\ last.args.parse_dates = Some(FALSE)
    /\ NotImplemented

\* C10: merge_occupancy_hvac, add_weather_features, add_tou_features and
\* compute_opportunity_for_savings raise NotImplementedError and return no
\* table, whatever the tables, freq, how and column names.
C10_PreprocessingNotImplemented ==
    last.op \in {"merge_occupancy_hvac", "add_weather_features",
                 "add_tou_features", "compute_opportunity_for_savings"}
        => NotImplemented

C10_Witness ==
    /\ last.op = "compute_opportunity_for_savings"
    /\ last.args.occupancy_col = Some("n_people")
    /\ heap[last.args.df] = OccupancyTable
    /\ NotImplemented

\* C11: compute_savings_and_setpoints raises NotImplementedError and returns
\* nothing, with or without tou_rates; when it raises, comfort_constraints is
\* the dict passed (empty, partial or complete), or, when none was passed,
\* min_temp 60, max_temp 85, pre_condition_time 30, occupancy_threshold 0.
C11_SetpointsNotImplemented ==
    last.op = "compute_savings_and_setpoints"
        => /\ NotImplemented
           /\ last.exc[1].msg = <<"Implement setpoint optimization and savings calculation">>
           /\ last.exc[1].locals.comfort_constraints =
                  IF last.args.comfort_constraints = None
                  THEN Some({<<"min_temp", 60>>, <<"max_temp", 85>>,
                             <<"pre_condition_time", 30>>,
                             <<"occupancy_threshold", 0>>})
                  ELSE last.args.comfort_constraints

C11_Witness ==
    /\ last.op = "compute_savings_and_setpoints"
    /\ last.args.comfort_constraints = None
    /\ last.args.tou_rates # None
    /\ NotImplemented
    /\ <<"min_temp", 60>> \in last.exc[1].locals.comfort_constraints[1]

VizOps == {"plot_daily_opportunity_for_savings", "plot_example_day_timeline",
           "plot_occupancy_heatmap", "plot_savings_summary",
           "create_interactive_dashboard"}

\* C12: each of the four plotting functions and create_interactive_dashboard
\* raises NotImplementedError for every table and configuration, returns no
\* figure and has no effect (no server is started).
C12_VisualizationNotImplemented ==
    last.op \in VizOps => (NotImplemented /\ last.effects = {})

C12_Witness ==
    /\ last.op = "create_interactive_dashboard"
    /\ last.args.port = Some(8050)
    /\ heap[last.args.df] = OccupancyTable
    /\ NotImplemented

\* C13: for the merged table with one zone unoccupied and HVAC on at 2 kWh
\* in four 15-minute intervals, estimate_savings_potential returns metrics
\* with total_opportunity_hours 1 and total_opportunity_energy_kwh 8.
C13_ScenarioSavings ==
    (last.op = "estimate_savings_potential" /\ heap[last.args.historical_df] = MergedTable)
        => /\ last.exc = None
           /\ last.ret # None
           /\ <<"total_opportunity_hours", 1>> \in last.ret[1]
           /\ <<"total_opportunity_energy_kwh", 8>> \in last.ret[1]

\* C14: for either model class, after any sequence of construction, fit,
\* predict and evaluate calls, every instance's model attribute is still
\* None, so every predict call, also one made after fit was called on the
\* same instance, fails with the ValueError guard and never with
\* NotImplementedError.
C14_FittedUnreachable ==
    /\ \A i \in Selves : instances[i].model = None
    /\ last.op \in PredictOps
           => (last.exc = MustFitFirst /\ ~Raises("NotImplementedError"))

C14_Witness ==
    /\ last.op \in PredictOps
    /\ last.self \in fit_called
    /\ instances[last.self].model = None
    /\ last.exc = MustFitFirst

\* C15: the outcome of simulate_control_policy is decided by policy alone:
\* ValueError exactly when policy is not, letter for letter, one of the three
\* valid names, NotImplementedError otherwise, whatever historical_df and
\* policy_params are; an omitted policy is "occupancy_setback" and is accepted.
C15_PolicyAloneDecides ==
    last.op = "simulate_control_policy"
        => /\ Raises("ValueError") <=> PolicyUsed \notin DocumentedPolicies
           /\ Raises("NotImplementedError") <=> PolicyUsed \in DocumentedPolicies
           /\ last.ret = None
           /\ last.effects = {}
           /\ last.args.policy = None => Raises("NotImplementedError")

C15_Witness ==
    /\ last.op = "simulate_control_policy"
    /\ last.args.policy = Some("Occupancy_Setback")
    /\ heap[last.args.historical_df] = MergedTable
    /\ Raises("ValueError")

\* C16: a call of engineer_features or compute_opportunity_for_savings,
\* returning or raising, leaves every table the caller holds with the rows
\* and columns it had, and leaves the caller's lag_periods lists as they
\* were; the table engineer_features returns is a new object, not the input
\* nor any other table of the caller.
C16_InputsUntouched ==
    [][last'.op \in {"engineer_features", "compute_opportunity_for_savings"}
          => /\ \A r \in DOMAIN heap : heap'[r] = heap[r]
             /\ lists' = lists
             /\ last'.effects = {}
             /\ last'.op = "engineer_features"
                    => /\ last'.ret # None
                       /\ last'.ret[1] \notin DOMAIN heap
                       /\ last'.ret[1] \in DOMAIN heap']_vars

C16_Witness ==
    /\ last.op = "engineer_features"
    /\ last.args.lag_periods = Some(<<1, 4>>)
    /\ lists = CallerLists
    /\ heap[last.args.df] = MergedTable
    /\ last.ret # None
    /\ last.ret[1] # last.args.df
    /\ heap[last.ret[1]] = MergedTable

\* How the recorded call ended: "returns" or the type of its exception.
OutcomeKind == IF last.exc = None THEN "returns" ELSE last.exc[1].type

\* The outcome as a function of the call alone: of the function called and
\* its arguments and, for a method, of the object it was called on.
ExpectedKind ==
    CASE last.op \in ConstructorOps \cup {"engineer_features"} -> "returns"
      [] last.op = "simulate_control_policy" ->
            IF PolicyUsed \in DocumentedPolicies
            THEN "NotImplementedError" ELSE "ValueError"
      [] last.op \in PredictOps ->
            IF Unfitted THEN "ValueError" ELSE "NotImplementedError"
      [] OTHER -> "NotImplementedError"

\* The value a returning call yields, again from the call alone.
ExpectedValue ==
    CASE last.op = "engineer_features" ->
            heap[last.ret[1]] = heap[last.args.df]
      [] last.op = "ProphetOccupancyModel" ->
            instances[last.self] =
                [cls |-> "ProphetOccupancyModel", zone_id |-> last.args.zone_id,
                 freq |-> Arg(last.args.freq, "15min"),
                 prophet_kwargs |-> last.args.prophet_kwargs, model |-> None]
      [] last.op = "TransformerOccupancyModel" ->
            /\ instances[last.self].zone_id = last.args.zone_id
            /\ instances[last.self].seq_length = Arg(last.args.seq_length, 96)
            /\ instances[last.self].kwargs = last.args.kwargs
            /\ instances[last.self].model = None
      [] OTHER -> last.ret = None

\* C17: there is no shared mutable state.  Every call ends as its function
\* and arguments alone determine (a method call: together with the object
\* it is called on), whatever calls came before it, and a step changes no
\* model object other than the one it was called on; a module-level call
\* changes none.
C17_NoSharedState ==
    [][/\ (OutcomeKind = ExpectedKind)'
       /\ ExpectedValue'
       /\ \A i \in DOMAIN instances :
              (i # last'.self \/ last'.op \in ConstructorOps)
                  => instances'[i] = instances[i]
       /\ last'.self = 0 => instances' = instances]_vars

C17_Witness ==
    /\ last.op = "estimate_savings_potential"
    /\ NotImplemented
    /\ Len(instances) = 2
    /\ instances[1].cls # instances[2].cls
    /\ fit_called # {}
    /\ Len(heap) = 2

====
